---- MODULE Spec2Model ----
(***************************************************************************)
(* Model of heycochrane's two maintenance scripts:                         *)
(*   scripts/update_cochrane.py  - discovers new Cochrane reviews,         *)
(*                                 summarises them and appends them to     *)
(*                                 summaries.yml                           *)
(*   scripts/add_dates.py        - backfills the date field of the records *)
(*                                 of summaries.yml                        *)
(*                                                                         *)
(* Text (a URL, a field value, the content of summaries.yml) is a sequence *)
(* of tokens; a token is a string standing for a piece of text that the    *)
(* regular expressions and the YAML layout of the scripts never split.     *)
(***************************************************************************)
EXTENDS Integers, Sequences, FiniteSets, TLC

(***************************************************************************)
(* Bounds of the model.                                                    *)
(***************************************************************************)
\* longest feed / news page (entries)
MaxFeed == 2
\* acquisition runs in a row on the same store
MaxRuns == 2
\* largest --max-reviews tried
MaxCap == 2
\* records of the store at the start of a date backfill
MaxRecs == 2
\* records without date beyond the number of workers of the pool
MaxWaiting == 1

(***************************************************************************)
(* Tokens.                                                                 *)
(***************************************************************************)
\* texts matching CD\d+ (upper case)
CDNumbers == {"CD1", "CD2"}
\* the same catalog numbers in lower case: matched only with re.IGNORECASE
LowerCDs == {"cd1", "cd2"}
\* layout tokens of summaries.yml
KeyQ == "- question: "
KeyA == "\n  answer: "
KeyU == "\n  url: "
KeyNBlock == "\n  notes: |\n    "
KeyN == "\n  notes: "
KeyI == "\n  interest: "
KeyT == "\n  tags: "
KeyD == "\n  date: "
Marker == "# New reviews added by automation"
NL == "\n"
Quote == "\""
EscNL == "\\n"
Keys == {KeyQ, KeyA, KeyU, KeyNBlock, KeyN, KeyI, KeyT, KeyD}

\* COCHRANE_BASE_URL
COCHRANE_BASE_URL == <<"https://www.cochrane.org">>

(***************************************************************************)
(* Sequence helpers.                                                       *)
(***************************************************************************)
Range(s) == {s[i] : i \in DOMAIN s}

IsPrefix(s, t) == Len(s) <= Len(t) /\ SubSeq(t, 1, Len(s)) = s

\* sep.join(parts)
RECURSIVE Join(_, _)
Join(parts, sep) ==
    IF parts = <<>> THEN <<>>
    ELSE IF Len(parts) = 1 THEN parts[1]
    ELSE parts[1] \o sep \o Join(Tail(parts), sep)

\* position of the first element of s at or after position from that is in S, 0 if none
FirstIn(s, S, from) ==
    LET hits == {i \in from..Len(s) : s[i] \in S}
    IN IF hits = {} THEN 0 ELSE CHOOSE i \in hits : \A j \in hits : i <= j

\* Python's None
None == "None"

\* re.search(r'CD\d+', text): the first match, None if there is none
SearchCD(text) ==
    LET p == FirstIn(text, CDNumbers, 1)
    IN IF p = 0 THEN None ELSE text[p]

\* re.findall(r'CD\d+', text) as a set
FindAllCD(text) == {text[i] : i \in {j \in DOMAIN text : text[j] \in CDNumbers}}

(***************************************************************************)
(* summaries.yml as text: formatting, parsing, dumping.                    *)
(***************************************************************************)
\* a dict of the scripts: keys says which of the fields are present
Dict(keys, question, answer, url, notes, interest, tags, date, skip) ==
    [keys |-> keys, question |-> question, answer |-> answer, url |-> url,
     notes |-> notes, interest |-> interest, tags |-> tags, date |-> date,
     skip |-> skip]

\* json.dumps of a string: quoted, newlines escaped
JsonStr(v) ==
    <<Quote>> \o [i \in DOMAIN v |-> IF v[i] = NL THEN EscNL ELSE v[i]] \o <<Quote>>

\* json.dumps of a list of strings
JsonList(tags) ==
    <<"[">> \o Join([i \in DOMAIN tags |-> <<Quote, tags[i], Quote>>], <<", ">>) \o <<"]">>

\* the f-string of append_to_summaries, stripped
FormatEntry(s) ==
    <<KeyQ>> \o JsonStr(s.question) \o <<KeyA>> \o JsonStr(s.answer)
        \o <<KeyU>> \o s.url \o <<KeyNBlock>> \o s.notes
        \o <<KeyI, ToString(s.interest)>> \o <<KeyT>> \o JsonList(s.tags)

\* what append_to_summaries writes at the end of the file for a non-empty batch
AppendedText(new_summaries) ==
    <<NL, NL, Marker, NL>>
        \o Join([i \in DOMAIN new_summaries |-> FormatEntry(new_summaries[i])], <<NL, NL>>)
        \o <<NL>>

\* a scalar of the file as a Python value: a quoted scalar loses its quotes and escapes
Unquote(v) ==
    IF Len(v) >= 2 /\ v[1] = Quote /\ v[Len(v)] = Quote
    THEN [i \in 1..(Len(v) - 2) |-> IF v[i + 1] = EscNL THEN NL ELSE v[i + 1]]
    ELSE v

\* a literal block scalar (|) as a Python value: clipped to one final newline
RECURSIVE StripTrailingNL(_)
StripTrailingNL(v) ==
    IF v # <<>> /\ v[Len(v)] = NL THEN StripTrailingNL(SubSeq(v, 1, Len(v) - 1)) ELSE v

BlockValue(v) == StripTrailingNL(v) \o <<NL>>

\* a block scalar whose continuation line is not indented ends the block early and
\* leaves text at column 0 inside the sequence: the document does not parse
BlockOk(v) == \A i \in 1..(Len(v) - 1) : v[i] = NL => v[i + 1] = NL

IsKey(t) == t \in Keys
IsTagText(t) == t \notin {"[", "]", Quote, ", "}

EntryLayouts ==
    LET n == {KeyNBlock, KeyN}
    IN {<<KeyQ, KeyA, KeyU, k, KeyI, KeyT>> : k \in n}
         \cup {<<KeyQ, KeyA, KeyU, k, KeyI, KeyT, KeyD>> : k \in n}

\* an empty dict
EmptyDict == Dict({}, <<>>, <<>>, <<>>, <<>>, 0, <<>>, <<>>, FALSE)

\* one entry of the file (seg starts with KeyQ): ok is FALSE when the entry raises
\* yaml.YAMLError, and rec is the loaded dict otherwise
ParseEntry(seg) ==
    LET layout == SelectSeq(seg, IsKey)
        pos(k) == FirstIn(seg, {k}, 1)
        nextKey(p) == FirstIn(seg, Keys, p + 1)
        \* the value after the key at p: up to the next key, or to the end of the line
        lineEnd(p) == LET e == FirstIn(seg, {NL, Marker}, p + 1)
                      IN IF e = 0 THEN Len(seg) + 1 ELSE e
        valEnd(p) == IF nextKey(p) = 0 THEN lineEnd(p) ELSE nextKey(p)
        val(k) == SubSeq(seg, pos(k) + 1, valEnd(pos(k)) - 1)
        hasDate == pos(KeyD) # 0
        block == pos(KeyNBlock) # 0
        notesRaw == IF block THEN val(KeyNBlock) ELSE val(KeyN)
        lastKey == layout[Len(layout)]
        rest == SubSeq(seg, valEnd(pos(lastKey)), Len(seg))
        oneLine(k) == NL \notin Range(val(k)) /\ Marker \notin Range(val(k))
        ints == {n \in 0..10 : <<ToString(n)>> = val(KeyI)}
        ok == /\ layout \in EntryLayouts
              /\ oneLine(KeyQ) /\ oneLine(KeyA) /\ oneLine(KeyU)
              /\ oneLine(KeyI) /\ oneLine(KeyT)
              /\ IF block THEN BlockOk(notesRaw) ELSE NL \notin Range(notesRaw)
              /\ \A i \in DOMAIN rest : rest[i] \in {NL, Marker}
              /\ ints # {}
    IN [ok |-> ok,
        rec |-> IF ~ok THEN EmptyDict
                ELSE Dict({"question", "answer", "url", "notes", "interest", "tags"}
                              \cup (IF hasDate THEN {"date"} ELSE {}),
                          Unquote(val(KeyQ)), Unquote(val(KeyA)), val(KeyU),
                          IF block THEN BlockValue(notesRaw) ELSE Unquote(notesRaw),
                          CHOOSE n \in ints : TRUE,
                          SelectSeq(val(KeyT), IsTagText),
                          IF hasDate THEN Unquote(val(KeyD)) ELSE <<>>,
                          FALSE)]

\* yaml.safe_load of the file: ok is FALSE when it raises yaml.YAMLError; recs is the
\* loaded list (<<>> for a document without entries, which loads as None)
YamlLoad(text) ==
    LET starts == {i \in DOMAIN text : text[i] = KeyQ}
        first == IF starts = {} THEN Len(text) + 1
                 ELSE CHOOSE i \in starts : \A j \in starts : i <= j
        segEnd(i) == LET later == {j \in starts : j > i}
                     IN IF later = {} THEN Len(text)
                        ELSE (CHOOSE j \in later : \A k \in later : j <= k) - 1
        order == [n \in 1..Cardinality(starts) |->
                    CHOOSE i \in starts : Cardinality({j \in starts : j <= i}) = n]
        parsed == [n \in 1..Cardinality(starts) |->
                    ParseEntry(SubSeq(text, order[n], segEnd(order[n])))]
        ok == /\ \A i \in 1..(first - 1) : text[i] \in {NL, Marker}
              /\ \A n \in DOMAIN parsed : parsed[n].ok
    IN [ok |-> ok,
        recs |-> IF ok THEN [n \in DOMAIN parsed |-> parsed[n].rec] ELSE <<>>]

\* one record as yaml.dump writes it: the keys in the dict's order, no comment
DumpEntry(s) ==
    <<KeyQ>> \o JsonStr(s.question) \o <<KeyA>> \o JsonStr(s.answer)
        \o <<KeyU>> \o s.url \o <<KeyN>> \o JsonStr(s.notes)
        \o <<KeyI, ToString(s.interest)>> \o <<KeyT>> \o JsonList(s.tags)
        \o (IF "date" \in s.keys THEN <<KeyD>> \o JsonStr(s.date) ELSE <<>>)

\* yaml.dump(summaries, default_flow_style=False, allow_unicode=True, sort_keys=False)
YamlDump(summaries) ==
    Join([i \in DOMAIN summaries |-> DumpEntry(summaries[i])], <<NL>>) \o <<NL>>

(***************************************************************************)
(* Optional values: Nothing is Python's None for a value that is a text or *)
(* a dict, Some(x) is the value x.                                         *)
(***************************************************************************)
Nothing == <<>>
Some(x) == <<x>>

\* Python truthiness of an Optional text or dict: None, "" and {} are falsy
TruthyText(o) == o # Nothing /\ o[1] # <<>>
TruthyDict(o) == o # Nothing /\ o[1].keys # {}

(***************************************************************************)
(* update_cochrane.py: the upstream.                                       *)
(***************************************************************************)
\* a link of the Cochrane Library: .../cdsr/doi/10.1002/14651858.CDnnn.pub2/full
LibraryUrl(cd) ==
    <<"https://www.cochranelibrary.com/cdsr/", "doi/", "10.1002/14651858.", cd, ".pub2", "/full">>

\* links a feed entry can carry: two reviews, and a link without a CD number
FeedLinks == {LibraryUrl("CD1"), LibraryUrl("CD2"), <<"https://www.cochrane.org", "/", "news-item">>}

\* hrefs of the news page: a relative link to a review, an absolute one, one without
\* a CD number
NewsHrefs == {<<"/", "CD1">>, LibraryUrl("CD2"), <<"/", "about">>}

\* the feed or the news page as the scripts get it: its links, or a failure to fetch
\* or parse it; the news page is unread until the first scrape
Upstream(status, links) == [status |-> status, links |-> links]
Unreachable == Upstream("unreachable", <<>>)
Unread == Upstream("unread", <<>>)

SeqsUpTo(S, n) == UNION {[1..k -> S] : k \in 0..n}

Feeds == {Upstream("ok", f) : f \in SeqsUpTo(FeedLinks, MaxFeed)} \cup {Unreachable}
NewsPages == {Upstream("ok", f) : f \in SeqsUpTo(NewsHrefs, MaxFeed)} \cup {Unreachable}

\* a candidate review (the title is only logged)
Review(cd_number, url) == [cd_number |-> cd_number, url |-> url]

\* fetch_rss_reviews: the entries whose link carries a CD number, in feed order
fetch_rss_reviews(f) ==
    IF f.status # "ok" THEN <<>>
    ELSE LET hasCD(link) == SearchCD(link) # None
             links == SelectSeq(f.links, hasCD)
         IN [i \in DOMAIN links |-> Review(SearchCD(links[i]), links[i])]

StartsWithSlash(href) == href # <<>> /\ href[1] \in {"/", "/full"}

\* the first occurrence of every CD number, in page order
RECURSIVE DedupByCD(_, _)
DedupByCD(reviews, seen) ==
    IF reviews = <<>> THEN <<>>
    ELSE IF Head(reviews).cd_number \in seen THEN DedupByCD(Tail(reviews), seen)
    ELSE <<Head(reviews)>> \o DedupByCD(Tail(reviews), seen \cup {Head(reviews).cd_number})

\* scrape_news_page: the links carrying a CD number, relative ones made absolute,
\* deduplicated by CD number
scrape_news_page(page) ==
    IF page.status # "ok" THEN <<>>
    ELSE LET hasCD(href) == SearchCD(href) # None
             hrefs == SelectSeq(page.links, hasCD)
             norm(href) == IF StartsWithSlash(href) THEN COCHRANE_BASE_URL \o href ELSE href
         IN DedupByCD([i \in DOMAIN hrefs |-> Review(SearchCD(hrefs[i]), norm(hrefs[i]))], {})

\* get_existing_cd_numbers with a pattern that only matches lower case
get_existing_cd_numbers_lower(text) ==
    {text[i] : i \in {j \in DOMAIN text : text[j] \in LowerCDs}}

\* get_existing_cd_numbers: every CD number of the raw text of summaries.yml
get_existing_cd_numbers(text) == FindAllCD(text)

(***************************************************************************)
(* update_cochrane.py: fetching and extracting the plain language summary. *)
(***************************************************************************)
\* what requests.get does for one URL: an exception, a non-200 answer, a 200 answer
FetchOutcomes == {"exception", "404", "200"}

\* urls_to_try with the discovered URL before the cochrane.org URL
urls_to_try_discovered_first(url, cd_number) ==
    <<url>> \o (IF cd_number # None THEN <<COCHRANE_BASE_URL \o <<"/", cd_number>>>> ELSE <<>>)

\* urls_to_try of fetch_plain_language_summary
urls_to_try(url, cd_number) ==
    (IF cd_number # None THEN <<COCHRANE_BASE_URL \o <<"/", cd_number>>>> ELSE <<>>) \o <<url>>

\* the loop over urls_to_try: the URLs fetched, and the response the loop ends with
\* ("none" when every fetch raised)
RECURSIVE FetchLoop(_, _, _, _)
FetchLoop(urls, outcomes, i, response) ==
    IF i > Len(urls) THEN [tried |-> i - 1, response |-> response]
    ELSE IF outcomes[i] = "exception" THEN FetchLoop(urls, outcomes, i + 1, response)
    ELSE IF outcomes[i] = "200" THEN [tried |-> i, response |-> "200"]
    ELSE FetchLoop(urls, outcomes, i + 1, outcomes[i])

\* a fetched page, as the three extraction strategies see it
Pages ==
    [sel : {"none", "empty", "text"},
     head : {"none", "nosiblings", "empty", "text"},
     art : {"none", "noparagraphs", "empty", "text"}]

\* the extraction of fetch_plain_language_summary on a page answered with 200
ExtractPLS(page) ==
    IF page.sel = "none" /\ page.head \in {"empty", "text"}
    THEN Some(IF page.head = "text" THEN <<"heading-siblings">> ELSE <<>>)
    ELSE IF page.sel # "none"
    THEN Some(IF page.sel = "text" THEN <<"pls-section">> ELSE <<>>)
    ELSE IF page.art \in {"empty", "text"}
    THEN Some(IF page.art = "text" THEN <<"paragraphs">> ELSE <<>>)
    ELSE Nothing

(***************************************************************************)
(* update_cochrane.py: the language model.                                 *)
(***************************************************************************)
\* what call_claude returns and how the reply parses:
\*   "none"    the call raised or returned no text
\*   "nojson"  the reply holds no brace-delimited object
\*   "badjson" json.loads raises JSONDecodeError
\*   "object"  json.loads returns the dict obj
Reply(kind, obj) == [kind |-> kind, obj |-> obj]

SummaryDict(keys, notes, skip) ==
    Dict(keys, IF "question" \in keys THEN <<"q1">> ELSE <<>>,
         IF "answer" \in keys THEN <<"a1">> ELSE <<>>, <<>>,
         IF "notes" \in keys THEN notes ELSE <<>>, 0, <<>>, <<>>, skip)

QAN == {"question", "answer", "notes"}

SummarizeReplies ==
    {Reply(k, EmptyDict) : k \in {"none", "nojson", "badjson"}}
    \cup {Reply("object", d) : d \in
            {SummaryDict(QAN, <<"n1">>, FALSE),
             SummaryDict(QAN, <<"n1", NL, "n2">>, FALSE),
             SummaryDict({"skip"}, <<>>, TRUE),
             SummaryDict(QAN \cup {"skip"}, <<"n1">>, TRUE),
             SummaryDict({"skip"}, <<>>, FALSE),
             SummaryDict({"question", "answer"}, <<>>, FALSE),
             SummaryDict({}, <<>>, FALSE)}}

\* summarize_review without the check of the skip flag
summarize_review_noskip(reply) ==
    IF reply.kind # "object" THEN Nothing ELSE Some(reply.obj)

\* summarize_review, given the reply of the language model
summarize_review(reply) ==
    IF reply.kind # "object" THEN Nothing
    ELSE IF "skip" \in reply.obj.keys /\ reply.obj.skip THEN Nothing
    ELSE Some(reply.obj)

EnrichDict(keys, interest, tags) ==
    Dict(keys, <<>>, <<>>, <<>>, <<>>, interest, tags, <<>>, FALSE)

EnrichReplies ==
    {Reply(k, EmptyDict) : k \in {"none", "nojson", "badjson"}}
    \cup {Reply("object", d) : d \in
            {EnrichDict({"interest", "tags"}, 7, <<"pain">>),
             EnrichDict({}, 0, <<>>)}}

\* enrichment.get('interest', 5)
DefaultInterest == 5

\* enrich_summary raises KeyError before the call when the summary lacks a field
EnrichRaises(summary) == ~(QAN \subseteq summary.keys)

\* enrich_summary without the check of the reply: a call that returned nothing counts
\* as a reply without interest and tags
enrich_summary_unchecked(summary, reply) ==
    IF reply.kind \in {"nojson", "badjson"} THEN Nothing
    ELSE Some([summary EXCEPT
                !.keys = @ \cup {"interest", "tags"},
                !.interest = IF "interest" \in reply.obj.keys
                             THEN reply.obj.interest ELSE DefaultInterest,
                !.tags = IF "tags" \in reply.obj.keys THEN reply.obj.tags ELSE <<>>])

\* enrich_summary, given the reply of the language model (the summary has its fields)
enrich_summary(summary, reply) ==
    IF reply.kind # "object" THEN Nothing
    ELSE Some([summary EXCEPT
                !.keys = @ \cup {"interest", "tags"},
                !.interest = IF "interest" \in reply.obj.keys
                             THEN reply.obj.interest ELSE DefaultInterest,
                !.tags = IF "tags" \in reply.obj.keys THEN reply.obj.tags ELSE <<>>])

\* validate_yaml that reports success whatever the parser says
validate_yaml_always(text) == TRUE

\* validate_yaml
validate_yaml(text) == YamlLoad(text).ok

(***************************************************************************)
(* summaries.yml at the start.                                             *)
(***************************************************************************)
StoredRecord(url, notes, date) ==
    Dict({"question", "answer", "url", "notes", "interest", "tags"}
             \cup (IF date # <<>> THEN {"date"} ELSE {}),
         <<"q0">>, <<"a0">>, url, notes, 6, <<"cardiology">>, date, FALSE)

\* an entry of the curated file: the layout append_to_summaries continues, with an
\* optional date line
FormatStored(s) ==
    FormatEntry(s) \o (IF "date" \in s.keys THEN <<KeyD>> \o s.date ELSE <<>>)

StoreText(recs) ==
    Join([i \in DOMAIN recs |-> FormatStored(recs[i])], <<NL, NL>>) \o <<NL>>

\* the stores an acquisition run starts from: no record, the review CD1, and the
\* review CD1 with notes that mention CD2
UpdateStores ==
    {StoreText(<<>>),
     StoreText(<<StoredRecord(LibraryUrl("CD1"), <<"n0">>, <<>>)>>),
     StoreText(<<StoredRecord(LibraryUrl("CD1"), <<"see also ", "CD2">>, <<>>)>>)}

(***************************************************************************)
(* State.                                                                  *)
(***************************************************************************)
VARIABLES
    store,                \* the text of summaries.yml
    feed,                 \* the RSS feed: its entries' links, or Unreachable
    news,                 \* the news page: its hrefs, or Unreachable; Unread until
                          \* the first scrape reads it
    max_reviews,          \* args.max_reviews
    dry_run,              \* args.dry_run
    run,                  \* number of the current run of update_cochrane.main
    pc,                   \* position of main
    existing,             \* main's existing
    reviews,              \* main's reviews
    new_reviews,          \* main's new_reviews
    idx,                  \* position of the for loop in new_reviews
    pls,                  \* main's pls
    summary,              \* main's summary
    processed_summaries,  \* main's processed_summaries
    output,               \* the ::set-output lines printed
    exit_code,            \* exit status of the process, -1 while it runs
    scraped,              \* history: scrape_news_page was called in this run
    calls,                \* history: page fetches and language-model calls of this run
    log,                  \* history: per candidate of this run, what happened to it
    appended,             \* history: CD numbers of the records appended by earlier runs
    dpc,                  \* position of add_dates.main
    summaries,            \* add_dates.main's summaries
    tasks,                \* the futures of the pool, by index of their record
    collected,            \* the indices whose future main has taken from as_completed
    updated,              \* main's updated
    failed,               \* main's failed
    date_writes,          \* history: per index, how often main assigned its date
    fpc,                  \* position of a single call of a function of the scripts
    finput,               \* the arguments of that call and what its requests meet
    foutput               \* what that call has done and returned

uvars == <<feed, news, max_reviews, dry_run, run, pc, existing, reviews,
           new_reviews, idx, pls, summary, processed_summaries, output, exit_code,
           scraped, calls, log, appended>>

dvars == <<dpc, summaries, tasks, collected, updated, failed, date_writes>>

fvars == <<fpc, finput, foutput>>

vars == <<store, uvars, dvars, fvars>>

args == <<max_reviews, dry_run>>
upstream == <<feed, news>>
locals == <<existing, reviews, new_reviews, idx, pls, summary, processed_summaries>>

NoOutput == <<>>

LogEntry(review) ==
    [cd_number |-> review.cd_number, tried |-> 0, reply |-> "nocall", skip |-> FALSE,
     lacks |-> FALSE, enrich_called |-> FALSE, enrichment |-> [kind |-> "nocall", obj |-> EmptyDict],
     appended |-> FALSE]

NoCalls == [fetch |-> 0, llm |-> 0, writes |-> 0]

\* add_dates.py is not running
DatesIdle ==
    /\ dpc = "idle"
    /\ summaries = <<>>
    /\ tasks = <<>>
    /\ collected = {}
    /\ updated = 0
    /\ failed = 0
    /\ date_writes = <<>>

\* no function is called on its own
FunctionIdle ==
    /\ fpc = "idle"
    /\ finput = <<>>
    /\ foutput = <<>>

\* the state in which update_cochrane.main starts
RunStart ==
    /\ pc = "start"
    /\ existing = {}
    /\ reviews = <<>>
    /\ new_reviews = <<>>
    /\ idx = 1
    /\ pls = Nothing
    /\ summary = Nothing
    /\ processed_summaries = <<>>
    /\ output = NoOutput
    /\ exit_code = -1
    /\ scraped = FALSE
    /\ calls = NoCalls
    /\ log = <<>>

InitUpdate ==
    /\ store \in UpdateStores
    /\ feed \in Feeds
    /\ news = Unread
    /\ max_reviews \in (-1)..MaxCap
    /\ dry_run \in BOOLEAN
    /\ run = 1
    /\ appended = {}
    /\ RunStart
    /\ DatesIdle
    /\ FunctionIdle

\* main returns
Return == pc' = "done" /\ exit_code' = 0

\* line 340: existing = get_existing_cd_numbers()
GetExisting ==
    /\ pc = "start"
    /\ existing' = get_existing_cd_numbers(store)
    /\ pc' = "rss"
    /\ UNCHANGED <<store, upstream, args, run, reviews, new_reviews, idx, pls, summary,
                   processed_summaries, output, exit_code, scraped, calls, log, appended>>
    /\ UNCHANGED <<dvars, fvars>>

\* the news page scraped whatever the feed returned
NeedsScrape_always(revs) == TRUE

\* line 345: if not reviews
NeedsScrape(revs) == revs = <<>>

\* line 344: reviews = fetch_rss_reviews()
FetchRss ==
    /\ pc = "rss"
    /\ reviews' = fetch_rss_reviews(feed)
    /\ pc' = IF NeedsScrape(reviews') THEN "scrape" ELSE "filter"
    /\ UNCHANGED <<store, upstream, args, run, existing, new_reviews, idx, pls, summary,
                   processed_summaries, output, exit_code, scraped, calls, log, appended>>
    /\ UNCHANGED <<dvars, fvars>>

\* lines 345-347: the feed gave nothing, reviews = scrape_news_page()
ScrapeNews ==
    /\ pc = "scrape"
    /\ IF news = Unread THEN news' \in NewsPages ELSE news' = news
    /\ reviews' = scrape_news_page(news')
    /\ scraped' = TRUE
    /\ pc' = "filter"
    /\ UNCHANGED <<store, feed, args, run, existing, new_reviews, idx, pls, summary,
                   processed_summaries, output, exit_code, calls, log, appended>>
    /\ UNCHANGED <<dvars, fvars>>

\* new_reviews[:args.max_reviews]: the first n elements, all of them when there are
\* fewer; a negative n counts from the end and leaves out the last -n elements
Take(s, n) ==
    LET stop == IF n >= 0 THEN (IF n < Len(s) THEN n ELSE Len(s))
                ELSE (IF Len(s) + n > 0 THEN Len(s) + n ELSE 0)
    IN SubSeq(s, 1, stop)

\* no review is filtered out
FilterNew_none(revs, known) == revs

\* line 354: the reviews whose CD number is not in existing
FilterNew(revs, known) ==
    LET isNew(r) == r.cd_number \notin known IN SelectSeq(revs, isNew)

\* lines 349-368: no review, no new review or a dry run end the run; otherwise the
\* new reviews are capped and the loop starts
Filter ==
    /\ pc = "filter"
    /\ LET fresh == FilterNew(reviews, existing)
       IN IF reviews = <<>> THEN Return /\ UNCHANGED new_reviews
          ELSE IF fresh = <<>> THEN Return /\ new_reviews' = fresh
          ELSE /\ new_reviews' = Take(fresh, max_reviews)
               /\ IF dry_run THEN Return
                  ELSE pc' = "loop" /\ UNCHANGED exit_code
    /\ UNCHANGED <<store, upstream, args, run, existing, reviews, idx, pls, summary,
                   processed_summaries, output, scraped, calls, log, appended>>
    /\ UNCHANGED <<dvars, fvars>>

\* lines 376-379, first half: the page of the next review is fetched
FetchPage ==
    /\ pc = "loop"
    /\ idx <= Len(new_reviews)
    /\ \E outcomes \in [1..2 -> FetchOutcomes] :
         LET review == new_reviews[idx]
             urls == urls_to_try(review.url, review.cd_number)
             got == FetchLoop(urls, outcomes, 1, "none")
         IN /\ calls' = [calls EXCEPT !.fetch = @ + got.tried]
            /\ log' = Append(log, [LogEntry(review) EXCEPT !.tried = got.tried])
            /\ IF got.response = "200"
               THEN pc' = "extract" /\ UNCHANGED idx
               ELSE pc' = "loop" /\ idx' = idx + 1
    /\ UNCHANGED <<store, upstream, args, run, existing, reviews, new_reviews, pls,
                   summary, processed_summaries, output, exit_code, scraped, appended>>
    /\ UNCHANGED <<dvars, fvars>>

\* lines 376-379, second half: the summary is extracted from the page; a review
\* without text is skipped
Extract ==
    /\ pc = "extract"
    /\ \E page \in Pages :
         LET text == ExtractPLS(page)
         IN IF TruthyText(text)
            THEN pls' = text /\ pc' = "summarize" /\ UNCHANGED idx
            ELSE pls' = Nothing /\ pc' = "loop" /\ idx' = idx + 1
    /\ UNCHANGED <<store, upstream, args, run, existing, reviews, new_reviews,
                   summary, processed_summaries, output, exit_code, scraped, calls, log,
                   appended>>
    /\ UNCHANGED <<dvars, fvars>>

\* lines 382-388: summary = summarize_review(pls); a review without summary is
\* skipped, the others get their url
Summarize ==
    /\ pc = "summarize"
    /\ \E reply \in SummarizeReplies :
         LET result == summarize_review(reply)
         IN /\ log' = [log EXCEPT ![idx].reply = reply.kind,
                                  ![idx].skip = "skip" \in reply.obj.keys /\ reply.obj.skip,
                                  ![idx].lacks = reply.kind = "object"
                                                   /\ ~(QAN \subseteq reply.obj.keys)]
            /\ IF TruthyDict(result)
               THEN /\ summary' = Some([result[1] EXCEPT !.keys = @ \cup {"url"},
                                                         !.url = new_reviews[idx].url])
                    /\ pc' = "enrich"
                    /\ UNCHANGED idx
               ELSE summary' = Nothing /\ pc' = "loop" /\ idx' = idx + 1
    /\ calls' = [calls EXCEPT !.llm = @ + 1]
    /\ pls' = Nothing
    /\ UNCHANGED <<store, upstream, args, run, existing, reviews, new_reviews,
                   processed_summaries, output, exit_code, scraped, appended>>
    /\ UNCHANGED <<dvars, fvars>>

\* lines 391-397: enriched = enrich_summary(summary); a KeyError of enrich_summary
\* ends the process, a review without enrichment is skipped, the others are kept
Enrich ==
    /\ pc = "enrich"
    /\ IF EnrichRaises(summary[1])
       THEN /\ pc' = "crashed"
            /\ exit_code' = 1
            /\ log' = [log EXCEPT ![idx].enrich_called = TRUE]
            /\ UNCHANGED <<idx, summary, processed_summaries, calls>>
       ELSE \E reply \in EnrichReplies :
              LET enriched == enrich_summary(summary[1], reply)
              IN /\ calls' = [calls EXCEPT !.llm = @ + 1]
                 /\ IF TruthyDict(enriched)
                    THEN /\ processed_summaries' = Append(processed_summaries, enriched[1])
                         /\ log' = [log EXCEPT ![idx].enrich_called = TRUE,
                                               ![idx].enrichment = reply,
                                               ![idx].appended = TRUE]
                    ELSE /\ UNCHANGED processed_summaries
                         /\ log' = [log EXCEPT ![idx].enrich_called = TRUE,
                                               ![idx].enrichment = reply]
                 /\ pc' = "loop"
                 /\ idx' = idx + 1
                 /\ summary' = Nothing
                 /\ UNCHANGED exit_code
    /\ UNCHANGED <<store, upstream, args, run, existing, reviews, new_reviews, pls,
                   output, scraped, appended>>
    /\ UNCHANGED <<dvars, fvars>>

\* append_to_summaries that opens the file for writing instead of appending
append_to_summaries_rewrite(text, new_summaries) ==
    IF new_summaries = <<>> THEN text ELSE AppendedText(new_summaries)

\* append_to_summaries: nothing for an empty batch, else the text written at the end
append_to_summaries(text, new_summaries) ==
    IF new_summaries = <<>> THEN text ELSE text \o AppendedText(new_summaries)

\* lines 400-401: the loop is over; the processed summaries are appended
AppendSummaries ==
    /\ pc = "loop"
    /\ idx > Len(new_reviews)
    /\ IF processed_summaries # <<>>
       THEN /\ store' = append_to_summaries(store, processed_summaries)
            /\ calls' = [calls EXCEPT !.writes = @ + 1]
            /\ pc' = "validate"
       ELSE pc' = "output" /\ UNCHANGED <<store, calls>>
    /\ UNCHANGED <<upstream, args, run, locals, output, exit_code, scraped, log, appended>>
    /\ UNCHANGED <<dvars, fvars>>

\* lines 404-406: a store that does not parse ends the process with status 1
Validate ==
    /\ pc = "validate"
    /\ IF validate_yaml(store)
       THEN pc' = "output" /\ UNCHANGED exit_code
       ELSE pc' = "exit" /\ exit_code' = 1
    /\ UNCHANGED <<store, upstream, args, run, locals, output, scraped, calls, log, appended>>
    /\ UNCHANGED <<dvars, fvars>>

\* the two ::set-output lines
SetOutput(processed) ==
    [count |-> Len(processed), reviews |-> [i \in DOMAIN processed |-> processed[i].url]]

\* lines 409-410: count and reviews are printed and main returns
Output ==
    /\ pc = "output"
    /\ output' = <<SetOutput(processed_summaries)>>
    /\ Return
    /\ UNCHANGED <<store, upstream, args, run, locals, scraped, calls, log, appended>>
    /\ UNCHANGED <<dvars, fvars>>

Ended == pc \in {"done", "exit", "crashed"}

\* the script is run again on the store the last run left, with the same arguments
NextRun ==
    /\ Ended
    /\ run < MaxRuns
    /\ run' = run + 1
    /\ appended' = appended \cup
            (IF calls.writes > 0
             THEN {SearchCD(processed_summaries[i].url) : i \in DOMAIN processed_summaries}
             ELSE {})
    /\ pc' = "start"
    /\ existing' = {}
    /\ reviews' = <<>>
    /\ new_reviews' = <<>>
    /\ idx' = 1
    /\ pls' = Nothing
    /\ summary' = Nothing
    /\ processed_summaries' = <<>>
    /\ output' = NoOutput
    /\ exit_code' = -1
    /\ scraped' = FALSE
    /\ calls' = NoCalls
    /\ log' = <<>>
    /\ UNCHANGED <<store, upstream, args>>
    /\ UNCHANGED <<dvars, fvars>>

NextUpdate ==
    \/ GetExisting
    \/ FetchRss
    \/ ScrapeNews
    \/ Filter
    \/ FetchPage
    \/ Extract
    \/ Summarize
    \/ Enrich
    \/ AppendSummaries
    \/ Validate
    \/ Output
    \/ NextRun

SpecUpdate == InitUpdate /\ [][NextUpdate]_vars

(***************************************************************************)
(* add_dates.py: the lookups of one record.                                *)
(***************************************************************************)
HasSlash(t) ==
    t \in {"/", "/full", "doi/", "https://www.cochrane.org",
           "https://www.cochranelibrary.com/cdsr/"}

\* tokens that start a DOI: 10.<registrant>/<first characters of the suffix>
DoiHeads == {"10.1002/14651858."}

\* the link of a methodology review: its DOI carries an MR number, not a CD number
MethodologyUrl ==
    <<"https://www.cochranelibrary.com/cdsr/", "doi/", "10.1002/14651858.", "MR000012", ".pub2", "/full">>

\* the longest run of tokens without a slash that starts at position i
RECURSIVE SlashFreeRun(_, _)
SlashFreeRun(text, i) ==
    IF i > Len(text) \/ HasSlash(text[i]) THEN <<>>
    ELSE <<text[i]>> \o SlashFreeRun(text, i + 1)

\* extract_doi: the Cochrane DOI pattern first, then a generic doi/10.x/y
extract_doi(url) ==
    LET cochrane == {i \in 1..(Len(url) - 1) :
                        url[i] = "10.1002/14651858." /\ url[i + 1] \in CDNumbers}
        generic == {i \in 1..(Len(url) - 1) : url[i] = "doi/" /\ url[i + 1] \in DoiHeads}
        least(S) == CHOOSE i \in S : \A j \in S : i <= j
    IN IF cochrane # {}
       THEN LET i == least(cochrane)
            IN Some(<<url[i], url[i + 1]>>
                      \o (IF i + 2 <= Len(url) /\ url[i + 2] = ".pub2" THEN <<".pub2">> ELSE <<>>))
       ELSE IF generic # {}
       THEN LET i == least(generic)
            IN Some(<<url[i + 1]>> \o SlashFreeRun(url, i + 2))
       ELSE Nothing

Upper(t) == CASE t = "cd1" -> "CD1" [] t = "cd2" -> "CD2" [] OTHER -> t

\* extract_cd_number: the first CD number in either case, in upper case
extract_cd_number(url) ==
    LET p == FirstIn(url, CDNumbers \cup LowerCDs, 1)
    IN IF p = 0 THEN None ELSE Upper(url[p])

\* f"{n:02d}"
Pad2(n) == IF n < 10 THEN "0" \o ToString(n) ELSE ToString(n)

CrossrefFields == <<"published", "issued", "published-online", "created">>

\* date-parts of a field as CrossRef sends it: "list" is [[...]] around the parts given
\* (also when the key is missing, by the default [[]]), "empty" is [], "null" is [[null]]
Shapes == {"list", "empty", "null"}

\* the JSON message of CrossRef: has are the date fields present, parts their date-parts
Message(has, parts) ==
    [has |-> has, parts |-> parts, shape |-> [f \in Range(CrossrefFields) |-> "list"]]

NoParts == [f \in Range(CrossrefFields) |-> <<>>]

CrossrefMessages ==
    {Message({}, NoParts),
     Message({"published"}, [NoParts EXCEPT !["published"] = <<2021, 3, 14>>]),
     Message({"published", "issued"}, [NoParts EXCEPT !["issued"] = <<2020, 11>>]),
     Message({"created"}, [NoParts EXCEPT !["created"] = <<2019>>])}

CrossrefResponses ==
    {[status |-> st, message |-> Message({}, NoParts)] : st \in {"exception", "404"}}
    \cup {[status |-> "200", message |-> m] : m \in CrossrefMessages}

\* the date every field carries when it carries one
FieldDate ==
    [f \in Range(CrossrefFields) |->
        CASE f = "published" -> <<2021, 3, 14>>
          [] f = "issued" -> <<2020, 11, 5>>
          [] f = "published-online" -> <<2022, 7, 15>>
          [] OTHER -> <<2019, 1, 2>>]

\* what a date field can look like: missing, without parts, with a year, a year and a
\* month, a full date, with an empty date-parts list, with a null year
FieldKinds == {"absent", "none", "y", "ym", "ymd", "empty", "null"}

PartsOf(f, kind) ==
    CASE kind = "y" -> SubSeq(FieldDate[f], 1, 1)
      [] kind = "ym" -> SubSeq(FieldDate[f], 1, 2)
      [] kind = "ymd" -> FieldDate[f]
      [] OTHER -> <<>>

\* every message over the four date fields
AllCrossrefMessages ==
    {[has |-> {f \in Range(CrossrefFields) : kind[f] # "absent"},
      parts |-> [f \in Range(CrossrefFields) |-> PartsOf(f, kind[f])],
      shape |-> [f \in Range(CrossrefFields) |->
                    IF kind[f] \in {"empty", "null"} THEN kind[f] ELSE "list"]] :
        kind \in [Range(CrossrefFields) -> FieldKinds]}

AllCrossrefResponses ==
    {[status |-> st, message |-> Message({}, NoParts)] : st \in {"exception", "404"}}
    \cup {[status |-> "200", message |-> m] : m \in AllCrossrefMessages}

\* the loop over the date fields of get_date_from_crossref, from field number k; an
\* empty date-parts list raises IndexError at [0], which the except clause turns into
\* None; a null year is formatted as the text None
RECURSIVE CrossrefDate(_, _)
CrossrefDate(message, k) ==
    IF k > Len(CrossrefFields) THEN Nothing
    ELSE LET field == CrossrefFields[k]
             date_parts == message.parts[field]
         IN IF field \notin message.has THEN CrossrefDate(message, k + 1)
            ELSE IF message.shape[field] = "empty" THEN Nothing
            ELSE IF message.shape[field] = "null"
            THEN Some(<<"None", "-", "01", "-", "01">>)
            ELSE IF Len(date_parts) >= 3
            THEN Some(<<ToString(date_parts[1]), "-", Pad2(date_parts[2]), "-", Pad2(date_parts[3])>>)
            ELSE IF Len(date_parts) >= 2
            THEN Some(<<ToString(date_parts[1]), "-", Pad2(date_parts[2]), "-", "01">>)
            ELSE IF Len(date_parts) >= 1
            THEN Some(<<ToString(date_parts[1]), "-", "01", "-", "01">>)
            ELSE CrossrefDate(message, k + 1)

\* get_date_from_crossref, given what the request does
get_date_from_crossref(response) ==
    IF response.status = "200" THEN CrossrefDate(response.message, 1) ELSE Nothing

\* what the publisher page carries after "datePublished": nothing, an ISO timestamp,
\* a date in words
PageBodies == {<<>>, <<"2022", "-", "07", "-", "15", "T09:00:00Z">>, <<"July 2022">>}

PageResponses ==
    {[status |-> st, body |-> <<>>] : st \in {"exception", "404"}}
    \cup {[status |-> "200", body |-> b] : b \in PageBodies}

FourDigits == {"2018", "2019", "2020", "2021", "2022"}
TwoDigits == {"01", "05", "06", "07", "11", "14", "15"}

\* get_date_from_cochrane_page, given what the request does
get_date_from_cochrane_page(response) ==
    LET b == response.body
    IN IF /\ response.status = "200"
          /\ Len(b) >= 5
          /\ b[1] \in FourDigits /\ b[2] = "-" /\ b[3] \in TwoDigits
          /\ b[4] = "-" /\ b[5] \in TwoDigits
       THEN Some(<<b[1], "-", b[3], "-", b[5]>>)
       ELSE Nothing

\* the test of the date made on a key the records do not have
HasDate_published(entry) == "published" \in entry.keys

\* entry.get("date") is truthy
HasDate(entry) == "date" \in entry.keys /\ entry.date # <<>>

\* ThreadPoolExecutor(max_workers=5)
max_workers == 5

\* the futures numbered by their position among the records without date
Submitted_rank(sums) ==
    [i \in DOMAIN sums |->
        IF HasDate(sums[i]) THEN [state |-> "none", index |-> 0, url |-> <<>>,
                                  date |-> Nothing, ev |-> <<>>]
        ELSE [state |-> "queued",
              index |-> Cardinality({j \in 1..i : ~HasDate(sums[j])}),
              url |-> sums[i].url, date |-> Nothing, ev |-> <<>>]]

\* the arguments of the futures of main: one per record without date, with its index
\* in summaries
Submitted(sums) ==
    [i \in DOMAIN sums |->
        IF HasDate(sums[i]) THEN [state |-> "none", index |-> 0, url |-> <<>>,
                                  date |-> Nothing, ev |-> <<>>]
        ELSE [state |-> "queued", index |-> i, url |-> sums[i].url,
              date |-> Nothing, ev |-> <<>>]]

\* history of a task: a request with the date it returned, or a sleep
Event(what, got) == [what |-> what, got |-> got]

\* get_date_for_entry that gives up after the CrossRef step
AfterCrossref_nopage(task, ev) ==
    [task EXCEPT !.state = "done", !.date = Nothing, !.ev = ev]

\* get_date_for_entry after the CrossRef step: the publisher page is next when the URL
\* carries a CD number, else the entry has no date
AfterCrossref(task, ev) ==
    IF extract_cd_number(task.url) # None
    THEN [task EXCEPT !.state = "page", !.ev = ev \o <<Event("sleep COCHRANE_DELAY", Nothing)>>]
    ELSE [task EXCEPT !.state = "done", !.date = Nothing, !.ev = ev]

(***************************************************************************)
(* add_dates.py: main and its pool.                                        *)
(***************************************************************************)
\* the stores a backfill starts from: records with a library URL, a cochrane.org URL
\* in lower case, the URL of a methodology review, a record that has its date, and a
\* record whose notes break the block scalar
DateRecords ==
    {StoredRecord(LibraryUrl("CD1"), <<"n0">>, <<>>),
     StoredRecord(<<"https://www.cochrane.org", "/", "cd2">>, <<"n0">>, <<>>),
     StoredRecord(MethodologyUrl, <<"n0">>, <<>>),
     StoredRecord(LibraryUrl("CD2"), <<"n0">>, <<"2018", "-", "05", "-", "06">>),
     StoredRecord(LibraryUrl("CD2"), <<"n1", NL, "n2">>, <<>>)}

\* a store with more records without date than the pool has workers: the records
\* carry a cochrane.org URL
PoolStore ==
    StoreText([i \in 1..(max_workers + MaxWaiting) |->
                  StoredRecord(<<"https://www.cochrane.org", "/", "cd2">>, <<"n0">>, <<>>)])

DateStores == {StoreText(recs) : recs \in SeqsUpTo(DateRecords, MaxRecs)} \cup {PoolStore}

\* update_cochrane.py is not running
UpdateIdle ==
    /\ feed = Unreachable
    /\ news = Unread
    /\ max_reviews = 1
    /\ dry_run = FALSE
    /\ run = 0
    /\ pc = "idle"
    /\ existing = {}
    /\ reviews = <<>>
    /\ new_reviews = <<>>
    /\ idx = 1
    /\ pls = Nothing
    /\ summary = Nothing
    /\ processed_summaries = <<>>
    /\ output = NoOutput
    /\ exit_code = -1
    /\ scraped = FALSE
    /\ calls = NoCalls
    /\ log = <<>>
    /\ appended = {}

InitDates ==
    /\ store \in DateStores
    /\ UpdateIdle
    /\ dpc = "load"
    /\ summaries = <<>>
    /\ tasks = <<>>
    /\ collected = {}
    /\ updated = 0
    /\ failed = 0
    /\ date_writes = <<>>
    /\ FunctionIdle

\* lines 140-156: the store is loaded; an empty store, or one whose records all have
\* a date, ends the run
LoadSummaries ==
    /\ dpc = "load"
    /\ LET loaded == YamlLoad(store)
           without_dates == Cardinality({i \in DOMAIN loaded.recs : ~HasDate(loaded.recs[i])})
       IN IF ~loaded.ok THEN dpc' = "crashed" /\ UNCHANGED <<summaries, date_writes>>
          ELSE /\ summaries' = loaded.recs
               /\ date_writes' = [i \in DOMAIN loaded.recs |-> 0]
               /\ dpc' = IF loaded.recs = <<>> \/ without_dates = 0 THEN "done" ELSE "submit"
    /\ UNCHANGED <<store, tasks, collected, updated, failed, uvars, fvars>>

\* lines 163-166: one future per record without date
Submit ==
    /\ dpc = "submit"
    /\ tasks' = Submitted(summaries)
    /\ dpc' = "collect"
    /\ UNCHANGED <<store, summaries, collected, updated, failed, date_writes, uvars, fvars>>

Running == {i \in DOMAIN tasks : tasks[i].state \in {"crossref", "page"}}
Queued == {i \in DOMAIN tasks : tasks[i].state = "queued"}

\* a pool that starts every future at once
PoolHasFreeWorker_unbounded == TRUE

\* ThreadPoolExecutor runs at most max_workers futures at a time; the others wait in
\* its queue
PoolHasFreeWorker == Cardinality(Running) < max_workers

\* a free worker takes the oldest queued future: get_date_for_entry up to its first
\* request (lines 108-116 and 124-126)
TaskStart(i) ==
    /\ i \in Queued
    /\ \A j \in Queued : i <= j
    /\ PoolHasFreeWorker
    /\ LET t == tasks[i]
           entry == summaries[i]
       IN tasks' = [tasks EXCEPT ![i] =
            IF HasDate(entry) THEN [t EXCEPT !.state = "done", !.date = Some(entry.date)]
            ELSE IF extract_doi(t.url) # Nothing THEN [t EXCEPT !.state = "crossref"]
            ELSE AfterCrossref(t, t.ev)]
    /\ UNCHANGED <<store, dpc, summaries, collected, updated, failed, date_writes, uvars, fvars>>

\* lines 117-126: the CrossRef request; its date ends the task, otherwise the task
\* sleeps and goes on to the publisher page
TaskCrossref(i) ==
    /\ i \in DOMAIN tasks
    /\ tasks[i].state = "crossref"
    /\ \E response \in CrossrefResponses :
         LET t == tasks[i]
             date == get_date_from_crossref(response)
         IN tasks' = [tasks EXCEPT ![i] =
              IF TruthyText(date)
              THEN [t EXCEPT !.state = "done", !.date = date,
                             !.ev = @ \o <<Event("crossref", date)>>]
              ELSE AfterCrossref(t, t.ev \o <<Event("crossref", date),
                                              Event("sleep CROSSREF_DELAY", Nothing)>>)]
    /\ UNCHANGED <<store, dpc, summaries, collected, updated, failed, date_writes, uvars, fvars>>

\* lines 127-133: the request of the publisher page
TaskPage(i) ==
    /\ i \in DOMAIN tasks
    /\ tasks[i].state = "page"
    /\ \E response \in PageResponses :
         LET t == tasks[i]
             date == get_date_from_cochrane_page(response)
         IN tasks' = [tasks EXCEPT ![i] =
              [t EXCEPT !.state = "done", !.ev = @ \o <<Event("page", date)>>,
                        !.date = IF TruthyText(date) THEN date ELSE Nothing]]
    /\ UNCHANGED <<store, dpc, summaries, collected, updated, failed, date_writes, uvars, fvars>>

\* lines 168-174: main takes a finished future from as_completed and stores its date
\* at the index the future returned
Collect(i) ==
    /\ dpc = "collect"
    /\ i \in DOMAIN tasks
    /\ tasks[i].state = "done"
    /\ i \notin collected
    /\ collected' = collected \cup {i}
    /\ LET index == tasks[i].index
           date == tasks[i].date
       IN IF TruthyText(date)
          THEN /\ summaries' = [summaries EXCEPT ![index].date = date[1],
                                                 ![index].keys = @ \cup {"date"}]
               /\ date_writes' = [date_writes EXCEPT ![index] = @ + 1]
               /\ updated' = updated + 1
               /\ UNCHANGED failed
          ELSE /\ failed' = failed + 1
               /\ UNCHANGED <<summaries, date_writes, updated>>
    /\ UNCHANGED <<store, dpc, tasks, uvars, fvars>>

\* the loop over as_completed left at the first future that returned no date
AllFuturesTaken_until_failure ==
    \/ \A i \in DOMAIN tasks : tasks[i].state = "none" \/ i \in collected
    \/ \E i \in collected : tasks[i].date = Nothing

\* line 168: the loop over as_completed(futures) has taken every future
AllFuturesTaken ==
    \A i \in DOMAIN tasks : tasks[i].state = "none" \/ i \in collected

\* lines 184-185: every future was taken; the store is rewritten
WriteBack ==
    /\ dpc = "collect"
    /\ AllFuturesTaken
    /\ store' = YamlDump(summaries)
    /\ dpc' = "done"
    /\ UNCHANGED <<summaries, tasks, collected, updated, failed, date_writes, uvars, fvars>>

NextDates ==
    \/ LoadSummaries
    \/ Submit
    \/ \E i \in DOMAIN tasks : TaskStart(i)
    \/ \E i \in DOMAIN tasks : TaskCrossref(i)
    \/ \E i \in DOMAIN tasks : TaskPage(i)
    \/ \E i \in DOMAIN tasks : Collect(i)
    \/ WriteBack

SpecDates == InitDates /\ [][NextDates]_vars

(***************************************************************************)
(* update_cochrane.py: one call of fetch_plain_language_summary, on every  *)
(* candidate, every answer of the two URLs and every page.                 *)
(***************************************************************************)
\* the candidates discovery can deliver
Candidates ==
    UNION {Range(fetch_rss_reviews(f)) : f \in Feeds}
        \cup UNION {Range(scrape_news_page(page)) : page \in NewsPages}

InitExtract ==
    /\ store = StoreText(<<>>)
    /\ UpdateIdle
    /\ DatesIdle
    /\ fpc = "fetch"
    /\ finput \in [review : Candidates, outcomes : [1..2 -> FetchOutcomes], page : Pages]
    /\ foutput = [fetched |-> <<>>, response |-> "none", text |-> Nothing]

\* lines 133-152: the URLs are fetched in turn; without a 200 the function returns None
FetchUrls ==
    /\ fpc = "fetch"
    /\ LET urls == urls_to_try(finput.review.url, finput.review.cd_number)
           got == FetchLoop(urls, finput.outcomes, 1, "none")
       IN /\ foutput' = [foutput EXCEPT !.fetched = SubSeq(urls, 1, got.tried),
                                        !.response = got.response]
          /\ fpc' = IF got.response = "200" THEN "extract" ELSE "returned"
    /\ UNCHANGED <<store, uvars, dvars, finput>>

\* lines 154-204: the text is extracted from the page and returned
ExtractText ==
    /\ fpc = "extract"
    /\ foutput' = [foutput EXCEPT !.text = ExtractPLS(finput.page)]
    /\ fpc' = "returned"
    /\ UNCHANGED <<store, uvars, dvars, finput>>

NextExtract ==
    \/ FetchUrls
    \/ ExtractText

SpecExtract == InitExtract /\ [][NextExtract]_vars

(***************************************************************************)
(* add_dates.py: one call of get_date_from_crossref, on every response.    *)
(***************************************************************************)
InitCrossref ==
    /\ store = StoreText(<<>>)
    /\ UpdateIdle
    /\ DatesIdle
    /\ fpc = "call"
    /\ finput \in AllCrossrefResponses
    /\ foutput = Nothing

\* lines 56-80: the request is made and the date of the answer returned
CallCrossref ==
    /\ fpc = "call"
    /\ foutput' = get_date_from_crossref(finput)
    /\ fpc' = "returned"
    /\ UNCHANGED <<store, uvars, dvars, finput>>

NextCrossref == CallCrossref

SpecCrossref == InitCrossref /\ [][NextCrossref]_vars

(***************************************************************************)
(* Properties of update_cochrane.py (specification SpecUpdate).            *)
(***************************************************************************)
\* main is past its filter of existing reviews
PastFilter == pc \notin {"idle", "start", "rss", "scrape", "filter"}

\* the values that follow the key k in a text, in order of appearance
ValuesAfter(text, k) ==
    LET at == {i \in DOMAIN text : text[i] = k}
        nth(n) == CHOOSE i \in at : Cardinality({j \in at : j <= i}) = n
        stop(i) == LET e == FirstIn(text, Keys \cup {NL, Marker}, i + 1)
                   IN IF e = 0 THEN Len(text) + 1 ELSE e
    IN [n \in 1..Cardinality(at) |-> SubSeq(text, nth(n) + 1, stop(nth(n)) - 1)]

\* the CD identifiers of the records of the store, one per url line
StoreIdentifiers == LET urls == ValuesAfter(store, KeyU)
                    IN [n \in DOMAIN urls |-> SearchCD(urls[n])]

\* C1 as stated: in a second run over the same upstream (not a dry run) no new
\* candidate is left after the existing-identifier filter.
C1_SecondRunFindsNothing ==
    (run >= 2 /\ ~dry_run /\ PastFilter) => new_reviews = <<>>

\* C1 as amended: a run that follows another one over the same upstream never has,
\* after its existing-identifier filter, a candidate whose CD identifier belongs to a
\* record that an earlier run appended; so it appends no record for such an identifier.
C1_AppendedNeverReturns ==
    /\ PastFilter => \A i \in DOMAIN new_reviews : new_reviews[i].cd_number \notin appended
    /\ \A i \in DOMAIN processed_summaries :
          SearchCD(processed_summaries[i].url) \notin appended
    /\ appended \subseteq Range(StoreIdentifiers)

\* a second run whose feed lists a review the first run appended, and a review the
\* first run dropped, which is a new candidate again
C1_Witness ==
    /\ run = 2
    /\ pc = "loop"
    /\ \E i \in DOMAIN reviews : reviews[i].cd_number \in appended
    /\ new_reviews # <<>>

\* C2 as stated: no two records of the store have the same CD identifier.
C2_IdentifiersUnique ==
    \A m, n \in DOMAIN StoreIdentifiers :
        (m # n /\ StoreIdentifiers[m] # None) => StoreIdentifiers[m] # StoreIdentifiers[n]

\* C3: a candidate whose summarize reply is an object with a truthy skip flag gets
\* nothing from summarize_review, is never enriched, is not among the processed
\* summaries, and the loop has moved on to the next candidate.
C3_SkipPropagation ==
    /\ \A k \in DOMAIN log :
          log[k].skip => /\ ~log[k].enrich_called
                         /\ ~log[k].appended
                         /\ idx > k
    /\ Len(processed_summaries) = Cardinality({k \in DOMAIN log : log[k].appended})
    /\ \A i \in DOMAIN processed_summaries : ~processed_summaries[i].skip
    /\ pc = "enrich" => ~summary[1].skip

\* a run that ended after a skipped candidate and the record of the candidate after it
C3_Witness ==
    /\ pc = "done"
    /\ Len(log) = 2
    /\ log[1].skip
    /\ log[2].appended
    /\ output # NoOutput

\* C4 as stated: a summarize reply that is an object, is no skip and lacks question,
\* answer or notes costs only its candidate: the run does not end there, and the
\* candidate is not appended.
C4_ShapeFailureSkipsCandidate ==
    \A k \in DOMAIN log :
        (log[k].lacks /\ ~log[k].skip) => (pc # "crashed" /\ ~log[k].appended)

\* C5: once a run has appended, the count/reviews output is printed only for a store
\* that parses; a run that appended and left a store that does not parse ends with
\* status 1 and without that output.
C5_ValidationGate ==
    /\ (calls.writes > 0 /\ output # NoOutput) => YamlLoad(store).ok
    /\ (calls.writes > 0 /\ pc \in {"output", "done"}) => YamlLoad(store).ok
    /\ (calls.writes > 0 /\ Ended /\ ~YamlLoad(store).ok) =>
            (pc = "exit" /\ exit_code = 1 /\ output = NoOutput)
    /\ pc = "exit" => (calls.writes > 0 /\ ~YamlLoad(store).ok)

\* a run that appended a record whose notes break the block scalar, and ended with
\* status 1
C5_Witness ==
    /\ pc = "exit"
    /\ exit_code = 1
    /\ calls.writes = 1
    /\ processed_summaries # <<>>
    /\ output = NoOutput

\* the text position of the first token of text that is not a newline, 0 if none
FirstText(text) ==
    LET at == {i \in DOMAIN text : text[i] # NL}
    IN IF at = {} THEN 0 ELSE CHOOSE i \in at : \A j \in at : i <= j

\* C8: whatever a step does to the store, the text before it is a prefix of the text
\* after it; the text an append adds starts with the marker comment and holds the
\* entries of the batch in batch order; an empty batch leaves the store as it is.
C8_AppendOnly ==
    [][/\ IsPrefix(store, store')
       /\ (pc = "loop" /\ idx > Len(new_reviews)) =>
            LET added == SubSeq(store', Len(store) + 1, Len(store'))
                batch == processed_summaries
            IN IF batch = <<>> THEN store' = store
               ELSE /\ added[FirstText(added)] = Marker
                    /\ ValuesAfter(added, KeyU) = [i \in DOMAIN batch |-> batch[i].url]
                    /\ ValuesAfter(added, KeyI)
                          = [i \in DOMAIN batch |-> <<ToString(batch[i].interest)>>]
                    /\ ValuesAfter(added, KeyQ) = [i \in DOMAIN batch |-> JsonStr(batch[i].question)]
                    /\ Len(ValuesAfter(store', KeyU))
                          = Len(ValuesAfter(store, KeyU)) + Len(batch)]_vars

\* a batch of two different records was appended to a store that held a record
C8_Witness ==
    /\ pc = "validate"
    /\ Len(processed_summaries) = 2
    /\ processed_summaries[1].interest # processed_summaries[2].interest
    /\ existing # {}
    /\ Len(ValuesAfter(store, KeyU)) = 3

\* C10: the news page is scraped exactly when the feed gave no candidate; an
\* unreachable feed or page counts as an empty result and the run goes on; when
\* neither gives a candidate the run ends without a page fetch, a language-model call
\* or a write to the store.
C10_DiscoveryFallback ==
    /\ pc \in {"start", "rss", "scrape"} => ~scraped
    /\ pc = "scrape" => fetch_rss_reviews(feed) = <<>>
    /\ pc \notin {"idle", "start", "rss", "scrape"} =>
          /\ scraped <=> fetch_rss_reviews(feed) = <<>>
          /\ reviews = IF scraped THEN scrape_news_page(news) ELSE fetch_rss_reviews(feed)
    /\ (pc \notin {"idle", "start", "rss", "scrape", "filter"} /\ reviews = <<>>) =>
          /\ pc = "done"
          /\ exit_code = 0
          /\ calls = NoCalls
          /\ log = <<>>
          /\ processed_summaries = <<>>
    /\ (feed = Unreachable /\ pc \notin {"idle", "start", "rss"}) =>
          (pc = "scrape" \/ scraped)
    /\ (news = Unreachable /\ scraped) =>
          (pc \in {"filter", "done"} /\ exit_code = IF pc = "done" THEN 0 ELSE -1)

\* a run in which the feed and the news page were both unreachable, and that ended
C10_Witness ==
    /\ feed = Unreachable
    /\ news = Unreachable
    /\ scraped
    /\ pc = "done"

\* C12 as stated: every run that ends with status 0 (dry runs left aside) has printed
\* the count and reviews output, with the number and the urls of the records it
\* appended.
C12_OutputOnSuccess ==
    (pc = "done" /\ exit_code = 0 /\ ~dry_run) =>
        /\ output # NoOutput
        /\ output[1].count = Cardinality({k \in DOMAIN log : log[k].appended})
        /\ output[1].reviews = [i \in DOMAIN processed_summaries |-> processed_summaries[i].url]

\* the last n elements of a sequence
LastN(seq, n) == SubSeq(seq, Len(seq) - n + 1, Len(seq))

\* the positions in new_reviews of the candidates that passed extraction, summarize
\* and enrich, in discovery order
Passed ==
    LET at == {k \in DOMAIN log : log[k].appended}
    IN [n \in 1..Cardinality(at) |-> CHOOSE k \in at : Cardinality({j \in at : j <= k}) = n]

\* C14 as stated: when a run has ended, the records it added to the store are the
\* candidates that passed extraction, summarize and enrich, one each and in discovery
\* order, with the url that discovery delivered and the interest and tags of the
\* enrichment reply (5 and no tag where the reply has none).
C14_AppendedAreThePassed ==
    Ended =>
        LET n == Len(Passed)
            urls == ValuesAfter(store, KeyU)
            interests == ValuesAfter(store, KeyI)
            tags == ValuesAfter(store, KeyT)
            enrichment(i) == log[Passed[i]].enrichment.obj
        IN /\ calls.writes = IF n > 0 THEN 1 ELSE 0
           /\ n <= Len(urls)
           /\ LastN(urls, n) = [i \in 1..n |-> new_reviews[Passed[i]].url]
           /\ LastN(interests, n) =
                 [i \in 1..n |-> <<ToString(IF "interest" \in enrichment(i).keys
                                            THEN enrichment(i).interest ELSE 5)>>]
           /\ LastN(tags, n) =
                 [i \in 1..n |-> JsonList(IF "tags" \in enrichment(i).keys
                                          THEN enrichment(i).tags ELSE <<>>)]

\* C19: a call of the language model that raised or returned nothing, for the summary
\* or for the enrichment, costs its candidate and nothing else: the candidate is not
\* enriched after a failed summary call, it is not among the processed summaries,
\* and the loop has moved on to the next candidate instead of ending the process.
C19_ModelUnavailable ==
    /\ \A k \in DOMAIN log :
          /\ log[k].reply = "none" =>
                /\ ~log[k].enrich_called
                /\ ~log[k].appended
                /\ idx > k
          /\ log[k].enrichment.kind = "none" =>
                /\ ~log[k].appended
                /\ idx > k
    /\ [i \in DOMAIN processed_summaries |-> processed_summaries[i].url]
          = [i \in DOMAIN Passed |-> new_reviews[Passed[i]].url]
    /\ \A i \in DOMAIN Passed :
          log[Passed[i]].reply = "object" /\ log[Passed[i]].enrichment.kind = "object"

\* a run that ended with status 0: the enrichment call of its first candidate returned
\* nothing, and the second candidate was processed and appended
C19_Witness ==
    /\ pc = "done"
    /\ exit_code = 0
    /\ Len(log) = 2
    /\ log[1].enrichment.kind = "none"
    /\ log[2].appended
    /\ calls.writes = 1

\* the candidates of a sequence whose CD number is not in known, in their order
RECURSIVE Unknown(_, _)
Unknown(revs, known) ==
    IF revs = <<>> THEN <<>>
    ELSE (IF Head(revs).cd_number \in known THEN <<>> ELSE <<Head(revs)>>)
            \o Unknown(Tail(revs), known)

C21_PerRunCap ==
    /\ (PastFilter /\ new_reviews # <<>>) =>
          /\ Len(new_reviews) <= max_reviews
          /\ Len(new_reviews) <= Len(Unknown(reviews, existing))
          /\ new_reviews = SubSeq(Unknown(reviews, existing), 1, Len(new_reviews))
    /\ log # <<>> =>
          /\ Len(log) <= max_reviews
          /\ Len(log) <= Len(new_reviews)
          /\ \A k \in DOMAIN log : log[k].cd_number = new_reviews[k].cd_number
          /\ Len(processed_summaries) <= max_reviews
          /\ calls.fetch <= 2 * Len(log)
          /\ calls.llm <= 2 * Len(log)

(***************************************************************************)
(* Properties of add_dates.py (specification SpecDates).                   *)
(***************************************************************************)
\* the requests among the events of a task
Requests(ev) == LET isRequest(e) == e.what \in {"crossref", "page"} IN SelectSeq(ev, isRequest)

\* the date a finished task resolved from its own lookups: that of its last request
ResolvedBy(task) ==
    LET rq == Requests(task.ev)
    IN IF rq = <<>> THEN Nothing
       ELSE IF TruthyText(rq[Len(rq)].got) THEN rq[Len(rq)].got ELSE Nothing

\* C6: in every interleaving the date of record i is the date that the task of record
\* i resolved from record i's url, or record i stays without date; the result of a
\* task goes to no other index, and no index is assigned twice.
C6_PositionalIntegrity ==
    dpc \in {"collect", "done"} =>
      \A i \in DOMAIN summaries :
        /\ date_writes[i] <= 1
        /\ (tasks # <<>> /\ tasks[i].state # "none") =>
              /\ tasks[i].index = i
              /\ tasks[i].url = summaries[i].url
              /\ IF i \in collected /\ TruthyText(ResolvedBy(tasks[i]))
                 THEN /\ summaries[i].date = ResolvedBy(tasks[i])[1]
                      /\ date_writes[i] = 1
                 ELSE /\ ~HasDate(summaries[i])
                      /\ date_writes[i] = 0
        /\ (tasks # <<>> /\ tasks[i].state = "none") => date_writes[i] = 0

\* the task of record 2 finished and was collected with its date while the task of
\* record 1 is still at a request
C6_Witness ==
    /\ dpc = "collect"
    /\ Len(summaries) = 2
    /\ collected = {2}
    /\ tasks[1].state \in {"crossref", "page"}
    /\ date_writes[2] = 1
    /\ HasDate(summaries[2])

\* the finished tasks
Finished == {i \in DOMAIN tasks : tasks[i].state = "done"}

\* C7 as stated: CrossRef is queried first when a DOI can be derived, and whenever it
\* gives no date the publisher page is requested before the record is reported
\* without date.
C7_PageAlwaysTried ==
    \A i \in Finished :
        LET rq == Requests(tasks[i].ev)
        IN /\ extract_doi(tasks[i].url) # Nothing => (rq # <<>> /\ rq[1].what = "crossref")
           /\ (rq # <<>> /\ rq[1].what = "crossref" /\ ~TruthyText(rq[1].got)) =>
                 (Len(rq) = 2 /\ rq[2].what = "page")

\* C7 as amended: CrossRef is queried first when a DOI can be derived; a CrossRef date
\* is returned without a page request; whenever CrossRef gives no date, or no DOI can
\* be derived, the publisher page is requested before the record is reported without
\* date, provided a CD number can be extracted from the URL; a date found on the page
\* is the date returned. A URL without CD number gets no page request.
C7_FallbackOrdering ==
    \A i \in Finished :
        LET t == tasks[i]
            rq == Requests(t.ev)
            doi == extract_doi(t.url) # Nothing
            cd == extract_cd_number(t.url) # None
            crossrefFound == doi /\ rq # <<>> /\ TruthyText(rq[1].got)
        IN /\ doi => (rq # <<>> /\ rq[1].what = "crossref")
           /\ ~doi => \A k \in DOMAIN rq : rq[k].what # "crossref"
           /\ crossrefFound => (Len(rq) = 1 /\ t.date = rq[1].got)
           /\ (~crossrefFound /\ cd) =>
                 /\ rq # <<>>
                 /\ rq[Len(rq)].what = "page"
                 /\ Len(rq) = IF doi THEN 2 ELSE 1
                 /\ t.date = IF TruthyText(rq[Len(rq)].got) THEN rq[Len(rq)].got ELSE Nothing
           /\ (~crossrefFound /\ ~cd) =>
                 /\ \A k \in DOMAIN rq : rq[k].what # "page"
                 /\ t.date = Nothing

\* a task whose CrossRef request gave no date and whose page request gave the date
\* it returned
C7_Witness ==
    \E i \in Finished :
        LET rq == Requests(tasks[i].ev)
        IN /\ Len(rq) = 2
           /\ rq[1].what = "crossref" /\ ~TruthyText(rq[1].got)
           /\ rq[2].what = "page" /\ TruthyText(rq[2].got)
           /\ tasks[i].date = rq[2].got

\* C11: a record whose lookups all failed stays without date and costs nothing else:
\* while main collects, some task or main itself can always go on; at the end of the
\* run every submitted task has finished and was taken, every date a task returned is
\* in its record, the failed ones are counted, and the store holds the records as
\* they are then.
C11_FailureIsolation ==
    /\ dpc = "collect" => ENABLED NextDates
    /\ (dpc = "done" /\ tasks # <<>>) =>
          /\ \A i \in DOMAIN tasks :
                tasks[i].state # "none" =>
                   /\ tasks[i].state = "done"
                   /\ i \in collected
                   /\ IF TruthyText(tasks[i].date)
                      THEN "date" \in summaries[i].keys /\ summaries[i].date = tasks[i].date[1]
                      ELSE "date" \notin summaries[i].keys /\ summaries[i].date = <<>>
          /\ failed = Cardinality({i \in Finished : ~TruthyText(tasks[i].date)})
          /\ updated = Cardinality({i \in Finished : TruthyText(tasks[i].date)})
          /\ store = YamlDump(summaries)

\* a finished backfill of two records: the lookups of the first all failed (CrossRef
\* and the publisher page), the second got its date, and the store was rewritten
C11_Witness ==
    /\ dpc = "done"
    /\ Len(tasks) = 2
    /\ Len(Requests(tasks[1].ev)) = 2
    /\ tasks[1].date = Nothing
    /\ failed = 1
    /\ TruthyText(tasks[2].date)
    /\ summaries[2].date = tasks[2].date[1]
    /\ YamlLoad(store).recs = summaries

\* C15 as stated: in the history of every task, a CrossRef request is directly
\* followed by the CrossRef delay and a publisher-page request by the Cochrane delay.
C15_DelayAfterEveryCall ==
    \A i \in DOMAIN tasks :
        LET ev == tasks[i].ev
        IN \A k \in DOMAIN ev :
              /\ ev[k].what = "crossref" =>
                    (k < Len(ev) /\ ev[k + 1].what = "sleep CROSSREF_DELAY")
              /\ ev[k].what = "page" =>
                    (k < Len(ev) /\ ev[k + 1].what = "sleep COCHRANE_DELAY")

\* C16: one task is submitted for every record that had no date when the store was
\* loaded and none for a record that had one, which gets no request; at most 5 tasks
\* are at a request at the same time.
C16_BoundedPool ==
    /\ Cardinality(Running) <= 5
    /\ tasks # <<>> =>
          /\ DOMAIN tasks = DOMAIN summaries
          /\ \A i \in DOMAIN tasks :
                LET hadDate == summaries[i].date # <<>> /\ date_writes[i] = 0
                IN /\ tasks[i].state = "none" <=> hadDate
                   /\ hadDate => tasks[i].ev = <<>>
                   /\ tasks[i].state # "none" => tasks[i].url = summaries[i].url

\* five tasks are at a request and a sixth waits in the queue of the pool; a record
\* that has its date has no task
C16_Witness ==
    /\ Cardinality(Running) = 5
    /\ Queued # {}

(***************************************************************************)
(* Properties of fetch_plain_language_summary (specification SpecExtract). *)
(***************************************************************************)
\* C17 as stated: on a fetched page the result is the text of the first of the three
\* strategies (selectors, "plain language" heading, paragraphs of the article) that
\* yields a text that is not empty, and no text when none of them does.
C17_FirstNonEmptyStrategy ==
    (fpc = "returned" /\ foutput.response = "200") =>
        LET page == finput.page
        IN IF page.sel = "text" THEN foutput.text = Some(<<"pls-section">>)
           ELSE IF page.head = "text" THEN foutput.text = Some(<<"heading-siblings">>)
           ELSE IF page.art = "text" THEN foutput.text = Some(<<"paragraphs">>)
           ELSE ~TruthyText(foutput.text)

\* C18: the cochrane.org URL of the CD number is fetched first and the discovered URL
\* second; the fetches stop at the first URL that answers 200 and its answer is the
\* one used; after an exception or another status the next URL is fetched; when no
\* URL answers 200 the function returns nothing, whatever the two failures are.
C18_UrlChain ==
    fpc \in {"extract", "returned"} =>
        LET review == finput.review
            outcomes == finput.outcomes
            canonical == <<"https://www.cochrane.org", "/", review.cd_number>>
        IN IF outcomes[1] = "200"
           THEN foutput.fetched = <<canonical>> /\ foutput.response = "200"
           ELSE IF outcomes[2] = "200"
           THEN foutput.fetched = <<canonical, review.url>> /\ foutput.response = "200"
           ELSE /\ foutput.fetched = <<canonical, review.url>>
                /\ foutput.response # "200"
                /\ fpc = "returned"
                /\ foutput.text = Nothing

\* the cochrane.org URL answered 404, the discovered URL of the Cochrane Library
\* answered 200 and its page gave the text
C18_Witness ==
    /\ fpc = "returned"
    /\ finput.outcomes = <<"404", "200">>
    /\ Len(foutput.fetched) = 2
    /\ foutput.fetched[1] # foutput.fetched[2]
    /\ TruthyText(foutput.text)

(***************************************************************************)
(* Properties of get_date_from_crossref (specification SpecCrossref).      *)
(***************************************************************************)
\* the date parts a field carries: those of a date-parts list with a year in it
Carried(message, field) ==
    IF field \in message.has /\ message.shape[field] = "list"
    THEN message.parts[field] ELSE <<>>

\* C13 as stated: the date returned is that of the first of published, issued,
\* published-online, created that carries a date part: YYYY-MM-DD with three parts,
\* YYYY-MM-01 with two, YYYY-01-01 with one; no date when no field carries a part
\* or the answer is not a 200.
C13_GranularityDegradation ==
    fpc = "returned" =>
        LET m == finput.message
            ks == {k \in DOMAIN CrossrefFields : Carried(m, CrossrefFields[k]) # <<>>}
            first == CHOOSE k \in ks : \A j \in ks : k <= j
            p == Carried(m, CrossrefFields[first])
        IN IF finput.status # "200" \/ ks = {} THEN foutput = Nothing
           ELSE foutput = Some(<<ToString(p[1]), "-",
                                 IF Len(p) >= 2 THEN Pad2(p[2]) ELSE "01", "-",
                                 IF Len(p) >= 3 THEN Pad2(p[3]) ELSE "01">>)

\* a record with the date field left out
WithoutDate(rec) == [rec EXCEPT !.date = <<>>, !.keys = @ \ {"date"}]

\* C9: a rewrite of the store by add_dates keeps the number and the order of the
\* records and every field but date; a record that had a date keeps it; only records
\* without date gain one.
C9_BackfillFrame ==
    [][store' # store =>
        LET before == YamlLoad(store)
            after == YamlLoad(store')
        IN /\ before.ok /\ after.ok
           /\ Len(after.recs) = Len(before.recs)
           /\ \A i \in DOMAIN before.recs :
                 /\ WithoutDate(after.recs[i]) = WithoutDate(before.recs[i])
                 /\ before.recs[i].date # <<>> => after.recs[i].date = before.recs[i].date]_vars

\* a finished backfill of two records: one that had its date and was not touched, one
\* that gained a date
C9_Witness ==
    /\ dpc = "done"
    /\ updated = 1
    /\ Len(summaries) = 2
    /\ \E i, j \in DOMAIN summaries :
          /\ date_writes[i] = 0 /\ summaries[i].date # <<>>
          /\ date_writes[j] = 1 /\ summaries[j].date # <<>>
    /\ YamlLoad(store).recs = summaries

====
